---- MODULE Spec2Model ----
(***************************************************************************)
(* Model of rotkehlchen.chain.ethereum.Ethchain: the connectivity state    *)
(* machine (__init__, attempt_connect, is_synchronized, set_rpc_endpoint,  *)
(* query_eth_highest_block) and the dispatch operations that read it       *)
(* (get_multitoken_balance, get_logs).                                     *)
(***************************************************************************)
EXTENDS Integers, Sequences, FiniteSets, TLC

\* ------------------------------------------------------------------ bounds
NumHosts == 2          \* distinct node hosts an endpoint may name
MaxChainId == 2        \* chain identities a node may report: 1..MaxChainId
MaxHeight == 22        \* block heights seen by the sync-lag check: 0..MaxHeight
MaxChunks == 3         \* log scans span up to MaxChunks full scan windows
MaxAccounts == 2       \* length of the address list of a token balance query
MaxDecimals == 1       \* token.decimals: 0..MaxDecimals
MaxOutputs == 2         \* values a contract method may return: 0..MaxOutputs
MaxRows == 2            \* rows of an imported CSV file: 0..MaxRows

\* --------------------------------------------------------------- constants
SyncTolerance == 20    \* is_synchronized: latest_block - 20
MainnetChainId == 1    \* attempt_connect: chain_id != 1
ScanWindow == 250000   \* get_logs: start_block + 250000

\* ------------------------------------------------------------- value domains
Hosts == 1..NumHosts
\* one endpoint written without a scheme, and one with a scheme per host
Endpoints == {[scheme |-> "", netloc |-> 1]} \cup [scheme : {"http"}, netloc : Hosts]
NoEndpoint == [scheme |-> "", netloc |-> 0]
ChainIds == 1..MaxChainId
Heights == 0..MaxHeight
\* heights a node or the oracle reports during attempt_connect: lags of
\* SyncTolerance - 1, SyncTolerance, MaxHeight - 1 and MaxHeight blocks
NodeCurrent == {0, 1}
NodeHighest == {SyncTolerance, MaxHeight}

\* self.web3: None after __init__, a Web3 handle, or no attribute at all
\* after `del self.web3`
Web3None == [state |-> "None", uri |-> NoEndpoint]
Web3Deleted == [state |-> "Deleted", uri |-> NoEndpoint]
Web3Handle(uri) == [state |-> "Handle", uri |-> uri]

\* messages returned to the caller; "" is the empty message
MsgAlready == "Already connected to an ethereum node"
MsgFailed == "Failed to connect to ethereum node at endpoint"
MsgNotMainnet == "Connected to ethereum node but it is not on the ethereum mainnet"
MsgOutOfSync == "Found ethereum node but it is out of sync"

VARIABLES
    constructed,      \* has __init__ run
    web3,             \* self.web3
    rpc_endpoint,     \* self.rpc_endpoint
    ethrpc_endpoint,  \* self.ethrpc_endpoint (set by set_rpc_endpoint only)
    connected,        \* self.connected
    token_abi,        \* self.token_abi: "Unset" or "Loaded"
    via,              \* endpoint argument of the call that built self.web3
    check,            \* what the last connectivity check observed
    last,             \* observation of the last call: arguments, result, effects
    scan,             \* the frame of a get_logs call in progress
    chain_height,     \* the node's web3.eth.blockNumber
    ledger            \* the ledger actions the DBLedgerActions store holds

vars == <<constructed, web3, rpc_endpoint, ethrpc_endpoint, connected,
          token_abi, via, check, last, scan, chain_height, ledger>>

\* the fields of the accessor that attempt_connect and __init__ write
connectivity == <<web3, rpc_endpoint, ethrpc_endpoint, connected, token_abi>>

NoCheck == [mainnet_check |-> FALSE, chain_id |-> 0, sync |-> "none"]

\* urlparse(ethrpc_endpoint).scheme empty => "http://" is prepended
NormalizeEndpoint(e) ==
    IF e.scheme = "" THEN [scheme |-> "http", netloc |-> e.netloc] ELSE e

\* ---------------------------------------------------------- is_synchronized
is_synchronized_mut(conn, current_block, latest_block) ==
    IF current_block <= (latest_block - SyncTolerance)
    THEN [ok |-> FALSE, msg |-> MsgOutOfSync, connected |-> FALSE]
    ELSE [ok |-> TRUE, msg |-> "", connected |-> conn]

is_synchronized(conn, current_block, latest_block) ==
    IF current_block < (latest_block - SyncTolerance)
    THEN [ok |-> FALSE, msg |-> MsgOutOfSync, connected |-> FALSE]
    ELSE [ok |-> TRUE, msg |-> "", connected |-> conn]

\* -------------------------------------------------- query_eth_highest_block
\* primary: reply of the block-height service, explorer: reply of
\* etherscan.get_latest_block_number(); <<>> is None, <<h>> is the height h
PrimaryReplies ==
    {[status |-> "RemoteError", height |-> 0], [status |-> "NoHeight", height |-> 0]}
    \cup [status : {"ok"}, height : NodeHighest]
ExplorerReplies ==
    {[status |-> "RemoteError", height |-> 0]}
    \cup [status : {"ok"}, height : NodeHighest]

\* every reply of the block-height service the call distinguishes
OraclePrimaryReplies ==
    PrimaryReplies \cup {[status |-> "UnableToDecryptRemoteData", height |-> 0]}

query_eth_highest_block_mut(primary, explorer) ==
    IF explorer.status = "ok"
    THEN [block |-> <<explorer.height>>, asked_explorer |-> TRUE]
    ELSE IF primary.status = "ok"
         THEN [block |-> <<primary.height>>, asked_explorer |-> TRUE]
         ELSE [block |-> <<>>, asked_explorer |-> TRUE]

query_eth_highest_block(primary, explorer) ==
    IF primary.status = "ok"
    THEN [block |-> <<primary.height>>, asked_explorer |-> FALSE]
    ELSE IF explorer.status = "ok"
         THEN [block |-> <<explorer.height>>, asked_explorer |-> TRUE]
         ELSE [block |-> <<>>, asked_explorer |-> TRUE]

\* ------------------------------------------------------------ attempt_connect
\* What the outside world answers during one attempt_connect call.
\* transport: "ConnectionError" (raised while building the provider),
\* "down" (isConnected() is False) or "up".
EnvDown ==
    [transport : {"ConnectionError", "down"}, chain_id : {MainnetChainId},
     syncing : {FALSE}, currentBlock : {0}, highestBlock : {0},
     primary : {[status |-> "RemoteError", height |-> 0]},
     explorer : {[status |-> "RemoteError", height |-> 0]}]
EnvSyncing ==
    [transport : {"up"}, chain_id : ChainIds,
     syncing : {TRUE}, currentBlock : NodeCurrent, highestBlock : NodeHighest,
     primary : {[status |-> "RemoteError", height |-> 0]},
     explorer : {[status |-> "RemoteError", height |-> 0]}]
\* the explorer is only asked when the primary service gave no height
EnvNotSyncing ==
    {e \in [transport : {"up"}, chain_id : ChainIds,
            syncing : {FALSE}, currentBlock : {0}, highestBlock : {0},
            primary : PrimaryReplies, explorer : ExplorerReplies] :
        e.primary.status = "ok" => e.explorer.status = "RemoteError"}
Envs == EnvDown \cup EnvSyncing \cup EnvNotSyncing

\* the accessor's fields as one record
Self == [web3 |-> web3, rpc_endpoint |-> rpc_endpoint, connected |-> connected,
         token_abi |-> token_abi, via |-> via, check |-> check]

\* result of a call that did not get past its first lines
Outcome(s, ok, msg, raised, path, released, built, established, chain, sync, warnings) ==
    [web3 |-> s.web3, connected |-> s.connected, token_abi |-> s.token_abi,
     via |-> s.via, check |-> s.check,
     ok |-> ok, msg |-> msg, raised |-> raised, path |-> path,
     released |-> released, built |-> built, established |-> established,
     chain_id |-> chain, sync |-> sync, warnings |-> warnings]

SyncVerdict_mut(conn, env) ==
    IF env.syncing
    THEN LET r == is_synchronized(conn, env.currentBlock, env.highestBlock)
         IN [synchronized |-> r.ok, connected |-> r.connected,
             sync |-> IF r.ok THEN "passed" ELSE "failed"]
    ELSE LET latest == query_eth_highest_block(env.primary, env.explorer).block
         IN IF latest = <<>>
            THEN [synchronized |-> TRUE, connected |-> conn, sync |-> "unknown"]
            ELSE LET r == is_synchronized(conn, env.currentBlock, latest[1])
                 IN [synchronized |-> r.ok, connected |-> r.connected,
                     sync |-> IF r.ok THEN "passed" ELSE "failed"]

\* lines 101-113: the sync verification of a mainnet node
SyncVerdict(conn, env) ==
    IF env.syncing
    THEN LET r == is_synchronized(conn, env.currentBlock, env.highestBlock)
         IN [synchronized |-> r.ok, connected |-> r.connected,
             sync |-> IF r.ok THEN "passed" ELSE "failed"]
    ELSE LET latest == query_eth_highest_block(env.primary, env.explorer).block
         IN IF latest = <<>>
            THEN [synchronized |-> FALSE, connected |-> conn, sync |-> "unknown"]
            ELSE LET r == is_synchronized(conn, env.currentBlock, latest[1])
                 IN [synchronized |-> r.ok, connected |-> r.connected,
                     sync |-> IF r.ok THEN "passed" ELSE "failed"]

OnMainnet_mut(chain_id) == chain_id >= MainnetChainId

\* line 91: the negation of `chain_id != 1`
OnMainnet(chain_id) == chain_id = MainnetChainId

\* lines 81-124: the transport answers isConnected() with True
Established(s, ep, mainnet_check, env, released) ==
    LET handle == Web3Handle(NormalizeEndpoint(ep))
        s1 == [s EXCEPT !.web3 = handle, !.via = ep, !.token_abi = "Loaded"]
    IN IF mainnet_check /\ ~OnMainnet(env.chain_id)
       THEN Outcome([s1 EXCEPT !.connected = FALSE,
                               !.check = [mainnet_check |-> TRUE,
                                          chain_id |-> env.chain_id,
                                          sync |-> "none"]],
                    FALSE, MsgNotMainnet, "None", "not_mainnet",
                    released, TRUE, TRUE, env.chain_id, "none", 0)
       ELSE LET v == IF mainnet_check
                     THEN SyncVerdict(s1.connected, env)
                     ELSE [synchronized |-> TRUE, connected |-> s1.connected,
                           sync |-> "none"]
                chain == IF mainnet_check THEN env.chain_id ELSE 0
            IN Outcome([s1 EXCEPT !.connected = TRUE,
                                  !.check = [mainnet_check |-> mainnet_check,
                                             chain_id |-> chain,
                                             sync |-> v.sync]],
                       TRUE, "", "None", "connected",
                       released, TRUE, TRUE, chain, v.sync,
                       IF v.synchronized THEN 0 ELSE 1)

attempt_connect(s, ep, mainnet_check, env) ==
    IF s.rpc_endpoint = ep /\ s.connected
    THEN Outcome(s, TRUE, MsgAlready, "None", "fast",
                 FALSE, FALSE, FALSE, 0, "none", 0)
    ELSE IF s.web3.state = "Deleted"
    THEN \* `if self.web3:` on an instance whose attribute was deleted
         Outcome(s, FALSE, "", "AttributeError", "raised",
                 FALSE, FALSE, FALSE, 0, "none", 0)
    ELSE LET released == s.web3.state = "Handle"
             s0 == IF released
                   THEN [s EXCEPT !.web3 = Web3Deleted, !.via = NoEndpoint]
                   ELSE s
         IN IF env.transport = "ConnectionError"
            THEN Outcome([s0 EXCEPT !.connected = FALSE],
                         FALSE, MsgFailed, "None", "connection_error",
                         released, FALSE, FALSE, 0, "none", 0)
            ELSE IF env.transport = "up"
            THEN Established(s0, ep, mainnet_check, env, released)
            ELSE Outcome([s0 EXCEPT !.web3 = Web3Handle(NormalizeEndpoint(ep)),
                                    !.via = ep, !.connected = FALSE],
                         FALSE, MsgFailed, "None", "down",
                         released, TRUE, FALSE, 0, "none", 0)

\* the observation a call to attempt_connect leaves behind
Observed(op, ep, mainnet_check, r) ==
    [op |-> op, endpoint |-> ep, mainnet_check |-> mainnet_check,
     ok |-> r.ok, msg |-> r.msg, raised |-> r.raised, path |-> r.path,
     released |-> r.released, built |-> r.built, established |-> r.established,
     chain_id |-> r.chain_id, sync |-> r.sync, warnings |-> r.warnings]

NoCall == [op |-> "none"]

\* ------------------------------------------------------ dispatch: domains
Min(a, b) == IF a <= b THEN a ELSE b

\* block numbers around the chunk boundaries, and the spec's example 600000
BlockPoints ==
    {b \in {k * (ScanWindow + 1) + d : k \in 0..MaxChunks, d \in {-1, 0, 1}} : b >= 0}
    \cup {600000}
FromBlocks == {0, 1, 600000}
\* to_block: <<>> is the literal 'latest', <<n>> the block number n
ToBlocks == {<<>>} \cup {<<b>> : b \in BlockPoints}
\* the heights the node's chain passes through
ChainHeights == {600000, MaxChunks * (ScanWindow + 1) + 1}
FirstHeight == 600000
\* blocks in which the queried contract emitted a matching event
NodeEventBlocks == {0, ScanWindow, ScanWindow + 1, 600000, MaxChunks * (ScanWindow + 1)}

RECURSIVE SortedSeq(_)
SortedSeq(S) ==
    IF S = {} THEN <<>>
    ELSE LET m == CHOOSE x \in S : \A y \in S : x <= y
         IN <<m>> \o SortedSeq(S \ {m})

\* web3.eth.getLogs(filter_args): the events of [fromBlock, toBlock] the node
\* has at its current height, in block order
eth_getLogs(fromBlock, toBlock, height) ==
    SortedSeq({b \in NodeEventBlocks : fromBlock <= b /\ b <= toBlock /\ b <= height})

NoScan == [pc |-> "idle"]

Accounts == {"A", "B"}
AccountLists == UNION {[1..n -> Accounts] : n \in 0..MaxAccounts}
Decimals == 0..MaxDecimals
\* raw integer balances balanceOf() returns
RawBalances == {0, 50}

\* an FVal, num / 10^exp, kept in lowest terms so that equal values are equal
RECURSIVE FVal(_, _)
FVal(num, exp) ==
    IF exp > 0 /\ num % 10 = 0 THEN FVal(num \div 10, exp - 1)
    ELSE [num |-> num, exp |-> exp]
ZERO == FVal(0, 0)

\* token_amount / (FVal(10) ** FVal(token.decimals))
ScaleByDecimals(token_amount, decimals) == FVal(token_amount, decimals)

\* what etherscan.get_token_balance(token, account) answers
ExplorerReplies_balance ==
    {[status |-> "RemoteError", amount |-> ZERO]}
    \cup [status : {"ok"}, amount : {ZERO, FVal(5, 0)}]

\* balances[account] = value
Put(balances, account, value) ==
    [a \in DOMAIN balances \cup {account} |->
        IF a = account THEN value ELSE balances[a]]
EmptyDict == [a \in {} |-> ZERO]

\* ------------------------------------------------- get_multitoken_balance
\* line 268: if token_amount != 0
KeepsAccount(token_amount) == token_amount # 0

\* lines 259-277: the loop over accounts on the node
RECURSIVE NodeTokenLoop(_, _, _, _, _)
NodeTokenLoop(accounts, i, balanceOf, decimals, balances) ==
    IF i > Len(accounts) THEN balances
    ELSE LET account == accounts[i]
             token_amount == balanceOf[account]
         IN NodeTokenLoop(accounts, i + 1, balanceOf, decimals,
                IF KeepsAccount(token_amount)
                THEN Put(balances, account, ScaleByDecimals(token_amount, decimals))
                ELSE balances)

\* lines 279-288: the loop over accounts on the explorer
RECURSIVE ExplorerTokenLoop(_, _, _, _)
ExplorerTokenLoop(accounts, i, replies, balances) ==
    IF i > Len(accounts)
    THEN [raised |-> "None", balances |-> balances,
          node_calls |-> 0, explorer_calls |-> Len(accounts)]
    ELSE LET account == accounts[i]
         IN IF replies[account].status = "RemoteError"
            THEN [raised |-> "RemoteError", balances |-> EmptyDict,
                  node_calls |-> 0, explorer_calls |-> i]
            ELSE ExplorerTokenLoop(accounts, i + 1, replies,
                     Put(balances, account, replies[account].amount))

get_multitoken_balance(conn, accounts, decimals, balanceOf, replies) ==
    IF conn
    THEN [raised |-> "None",
          balances |-> NodeTokenLoop(accounts, 1, balanceOf, decimals, EmptyDict),
          node_calls |-> Len(accounts), explorer_calls |-> 0]
    ELSE ExplorerTokenLoop(accounts, 1, replies, EmptyDict)

\* etherscan.get_token_balance(token, account) for an account whose raw token
\* balance is raw: the balance in whole tokens, raw / 10^token.decimals
etherscan_get_token_balance(raw, decimals) == ScaleByDecimals(raw, decimals)

get_token_balance_mut(conn, account, decimals, balanceOf, replies) ==
    LET res == get_multitoken_balance(conn, <<account>>, decimals, balanceOf, replies)
    IN [raised |-> IF res.raised # "None" THEN res.raised
                   ELSE IF account \in DOMAIN res.balances THEN "None"
                        ELSE "KeyError",
        value |-> IF res.raised # "None" THEN <<>>
                  ELSE IF account \in DOMAIN res.balances
                       THEN <<res.balances[account]>>
                       ELSE <<>>,
        node_calls |-> res.node_calls, explorer_calls |-> res.explorer_calls]

\* lines 292-307: res.get(account, FVal(0)) of the one-account query
get_token_balance(conn, account, decimals, balanceOf, replies) ==
    LET res == get_multitoken_balance(conn, <<account>>, decimals, balanceOf, replies)
    IN [raised |-> res.raised,
        value |-> IF res.raised # "None" THEN <<>>
                  ELSE IF account \in DOMAIN res.balances
                       THEN <<res.balances[account]>>
                       ELSE <<ZERO>>,
        node_calls |-> res.node_calls, explorer_calls |-> res.explorer_calls]

\* ------------------------------------- get_eth_balance, get_multieth_balance
\* from_wei(wei_amount): the amount in ETH, wei / 10^18
from_wei(wei_amount) == FVal(wei_amount, 18)

\* what etherscan.get_account_balance(account) answers, in wei
ExplorerReplies_wei ==
    {[status |-> "RemoteError", wei |-> 0]} \cup [status : {"ok"}, wei : RawBalances]

\* lines 191-209
get_eth_balance(conn, getBalance, reply) ==
    IF ~conn
    THEN IF reply.status = "RemoteError"
         THEN [raised |-> "RemoteError", value |-> <<>>,
               node_calls |-> 0, explorer_calls |-> 1]
         ELSE [raised |-> "None", value |-> <<from_wei(reply.wei)>>,
               node_calls |-> 0, explorer_calls |-> 1]
    ELSE [raised |-> "None", value |-> <<from_wei(getBalance)>>,
          node_calls |-> 1, explorer_calls |-> 0]

\* lines 226-234: the loop over accounts on the node
RECURSIVE NodeEthLoop(_, _, _, _)
NodeEthLoop(accounts, i, getBalance, balances) ==
    IF i > Len(accounts) THEN balances
    ELSE NodeEthLoop(accounts, i + 1, getBalance,
             Put(balances, accounts[i], from_wei(getBalance[accounts[i]])))

\* what etherscan.get_accounts_balance(accounts) answers: a dict over the
\* accounts asked for
AccountsBalance(accounts, amounts) ==
    [a \in {accounts[i] : i \in 1..Len(accounts)} |-> amounts[a]]

\* lines 211-236
get_multieth_balance(conn, accounts, getBalance, reply) ==
    IF ~conn
    THEN IF reply.status = "RemoteError"
         THEN [raised |-> "RemoteError", balances |-> EmptyDict,
               node_calls |-> 0, explorer_calls |-> 1]
         ELSE [raised |-> "None",
               balances |-> AccountsBalance(accounts, reply.amounts),
               node_calls |-> 0, explorer_calls |-> 1]
    ELSE [raised |-> "None",
          balances |-> NodeEthLoop(accounts, 1, getBalance, EmptyDict),
          node_calls |-> Len(accounts), explorer_calls |-> 0]

\* --------------------------------------------------- get_code, check_contract
\* deployment bytecode: none, or some
Codes == {"0x", "0x60"}
ExplorerReplies_code ==
    {[status |-> "RemoteError", code |-> "0x"]} \cup [status : {"ok"}, code : Codes]

get_code_mut(conn, getCode, reply) ==
    IF ~conn
    THEN [raised |-> "None", value |-> <<getCode>>,
          node_calls |-> 1, explorer_calls |-> 0]
    ELSE IF reply.status = "RemoteError"
         THEN [raised |-> "RemoteError", value |-> <<>>,
               node_calls |-> 0, explorer_calls |-> 1]
         ELSE [raised |-> "None", value |-> <<reply.code>>,
               node_calls |-> 0, explorer_calls |-> 1]

\* lines 315-327
get_code(conn, getCode, reply) ==
    IF conn
    THEN [raised |-> "None", value |-> <<getCode>>,
          node_calls |-> 1, explorer_calls |-> 0]
    ELSE IF reply.status = "RemoteError"
         THEN [raised |-> "RemoteError", value |-> <<>>,
               node_calls |-> 0, explorer_calls |-> 1]
         ELSE [raised |-> "None", value |-> <<reply.code>>,
               node_calls |-> 0, explorer_calls |-> 1]

\* the values a contract method returns
Values == {7, 8}
\* the decoded outputs of a method: as many values as its ABI declares
Outputs == UNION {[1..n -> Values] : n \in 0..MaxOutputs}
\* what etherscan.eth_call answers, decoded by its output types
ExplorerReplies_call ==
    {[status |-> "RemoteError", output_data |-> <<>>]}
    \cup [status : {"ok"}, output_data : Outputs]

_check_contract_etherscan_mut(reply) ==
    IF reply.status = "RemoteError"
    THEN [raised |-> "RemoteError", value |-> <<>>, logged_error |-> FALSE,
          node_calls |-> 0, explorer_calls |-> 1]
    ELSE IF Len(reply.output_data) = 0
         THEN [raised |-> "IndexError", value |-> <<>>, logged_error |-> TRUE,
               node_calls |-> 0, explorer_calls |-> 1]
         ELSE [raised |-> "None",
               value |-> <<reply.output_data[Len(reply.output_data)]>>,
               logged_error |-> Len(reply.output_data) > 2,
               node_calls |-> 0, explorer_calls |-> 1]

\* lines 329-352: _check_contract_etherscan
_check_contract_etherscan(reply) ==
    IF reply.status = "RemoteError"
    THEN [raised |-> "RemoteError", value |-> <<>>, logged_error |-> FALSE,
          node_calls |-> 0, explorer_calls |-> 1]
    ELSE IF Len(reply.output_data) = 0
         THEN \* logs the anomaly, then output_data[0] of an empty tuple
              [raised |-> "IndexError", value |-> <<>>, logged_error |-> TRUE,
               node_calls |-> 0, explorer_calls |-> 1]
         ELSE [raised |-> "None", value |-> <<reply.output_data[1]>>,
               logged_error |-> Len(reply.output_data) # 1,
               node_calls |-> 0, explorer_calls |-> 1]

\* lines 354-371
check_contract(conn, caller_value, reply) ==
    IF conn
    THEN [raised |-> "None", value |-> <<caller_value>>, logged_error |-> FALSE,
          node_calls |-> 1, explorer_calls |-> 0]
    ELSE _check_contract_etherscan(reply)

\* ------------------------------------------------------------------ get_logs
EndBlock_mut(start_block, until_block) == Min(start_block + ScanWindow - 1, until_block)

\* line 401: end_block = min(start_block + 250000, until_block)
EndBlock(start_block, until_block) == Min(start_block + ScanWindow, until_block)

NextStart_mut(end_block) == end_block + 2

\* line 414: start_block = end_block + 1
NextStart(end_block) == end_block + 1

UntilBlock_mut(to_block, height) == IF to_block = <<>> THEN height + 1 ELSE to_block[1]

\* line 396: until_block = blockNumber if to_block == 'latest' else to_block
UntilBlock(to_block, height) == IF to_block = <<>> THEN height ELSE to_block[1]

\* ------------------------------------------------------- the Gitcoin importer
Txids == {"t1", "t2"}

\* a CSV row, and with it what the price oracle answers for its asset and date
Row(type, usd, txid, token_name, token_value, price) ==
    [Type |-> type, usd |-> usd, txid |-> txid, token_name |-> token_name,
     token_value |-> token_value, price |-> price]

\* the rows a file is made of: a row of another type, a row whose USD value
\* does not parse, an unknown asset symbol, an amount that does not parse, a
\* zero amount without and with a fallback price, and sound grant rows
Rows ==
    {Row("other", "10", "t1", "ETH", "5", 0),
     Row("grant", "bad", "t1", "???", "5", 0),
     Row("grant", "10", "t1", "???", "bad", 0),
     Row("grant", "10", "t1", "ETH", "bad", 0),
     Row("grant", "10", "t1", "ETH", "0", 0),
     Row("grant", "10", "t1", "ETH", "0", 3)}
    \cup {Row("grant", "10", txid, "ETH", "5", 0) : txid \in Txids}
Files == UNION {[1..n -> Rows] : n \in 0..MaxRows}

\* deserialize_asset_amount(text): <<amount>>, or <<>> for DeserializationError
deserialize_asset_amount(text) ==
    CASE text = "0" -> <<0>>
      [] text = "5" -> <<5>>
      [] text = "10" -> <<10>>
      [] OTHER -> <<>>

\* get_asset_by_symbol(symbol): <<asset>>, or <<>> for None
get_asset_by_symbol(symbol) == IF symbol = "ETH" THEN <<"ETH">> ELSE <<>>

Consumed(kind, exc, warnings, action) ==
    [kind |-> kind, exc |-> exc, warnings |-> warnings, action |-> action]

\* lines 27-74
_consume_grant_entry(entry) ==
    IF entry.Type # "grant" THEN Consumed("none", "None", <<>>, <<>>)
    ELSE LET usd_value == deserialize_asset_amount(entry.usd)
             tx_id == entry.txid
             asset == get_asset_by_symbol(entry.token_name)
             token_amount == deserialize_asset_amount(entry.token_value)
         IN IF usd_value = <<>>
            THEN Consumed("raise", "DeserializationError", <<>>, <<>>)
            ELSE IF asset = <<>>
            THEN Consumed("raise", "UnknownAsset", <<>>, <<>>)
            ELSE IF token_amount = <<>>
            THEN Consumed("raise", "DeserializationError", <<>>, <<>>)
            ELSE IF token_amount[1] = 0 /\ entry.price = 0
            THEN Consumed("none", "None", <<"zero_amount">>, <<>>)
            ELSE IF token_amount[1] = 0
            THEN \* line 62: usd_value / token_amount with token_amount zero
                 Consumed("raise", "DivisionByZero", <<>>, <<>>)
            ELSE Consumed("action", "None", <<>>,
                     <<[location |-> "BLOCKCHAIN", amount |-> token_amount[1],
                        asset |-> asset[1],
                        rate |-> usd_value[1] \div token_amount[1],
                        link |-> tx_id, notes |-> "gitcoin"]>>)

\* lines 80-104: the loop over the rows
RECURSIVE ImportLoop(_, _, _, _, _)
ImportLoop(rows, i, actions, warnings, errors) ==
    IF i > Len(rows)
    THEN [raised |-> "None", actions |-> actions, warnings |-> warnings,
          errors |-> errors]
    ELSE LET c == _consume_grant_entry(rows[i])
         IN IF c.exc = "UnknownAsset"
            THEN ImportLoop(rows, i + 1, actions,
                            Append(warnings, "unknown_asset"), errors)
            ELSE IF c.exc = "DeserializationError"
            THEN ImportLoop(rows, i + 1, actions, warnings, errors + 1)
            ELSE IF c.exc # "None"
            THEN [raised |-> c.exc, actions |-> <<>>,
                  warnings |-> warnings, errors |-> errors]
            ELSE ImportLoop(rows, i + 1, actions \o c.action,
                            warnings \o c.warnings, errors)

\* DBLedgerActions.get_ledger_actions(from_ts=None, to_ts=None, location, link):
\* the stored actions that match the filter
get_ledger_actions(store, location, link) ==
    {x \in store : x.location = location /\ x.link = link}

\* DBLedgerActions.add_ledger_actions(actions)
add_ledger_actions(store, actions) ==
    store \cup {actions[i] : i \in 1..Len(actions)}

\* lines 76-113
import_gitcoin_csv(store, rows) ==
    LET loop == ImportLoop(rows, 1, <<>>, <<>>, 0)
    IN IF loop.raised # "None"
       THEN [raised |-> loop.raised, persisted |-> FALSE, parsed |-> <<>>,
             added |-> <<>>, warnings |-> loop.warnings, errors |-> loop.errors,
             store |-> store]
       ELSE LET db_actions == get_ledger_actions(store, "BLOCKCHAIN", "gitcoin")
                existing_txids == {x.link : x \in db_actions}
                new == SelectSeq(loop.actions, LAMBDA x : x.link \notin existing_txids)
            IN [raised |-> "None", persisted |-> TRUE, parsed |-> loop.actions,
                added |-> new, warnings |-> loop.warnings, errors |-> loop.errors,
                store |-> add_ledger_actions(store, new)]

\* ------------------------------------------------------------------- actions
Init ==
    /\ constructed = FALSE
    /\ web3 = Web3None
    /\ rpc_endpoint = NoEndpoint
    /\ ethrpc_endpoint = NoEndpoint
    /\ connected = FALSE
    /\ token_abi = "Unset"
    /\ via = NoEndpoint
    /\ check = NoCheck
    /\ last = NoCall
    /\ scan = NoScan
    /\ chain_height = FirstHeight
    /\ ledger = {}

\* Ethchain.__init__(ethrpc_endpoint, ..., attempt_connect=False)
ConstructOnly ==
    /\ ~constructed
    /\ \E ep \in Endpoints :
        /\ constructed' = TRUE
        /\ web3' = Web3None
        /\ rpc_endpoint' = ep
        /\ connected' = FALSE
        /\ last' = [op |-> "__init__", endpoint |-> ep, path |-> "no_attempt"]
    /\ UNCHANGED <<ethrpc_endpoint, token_abi, via, check, scan, chain_height, ledger>>

\* Ethchain.__init__(ethrpc_endpoint, ..., attempt_connect=True)
ConstructAndConnect ==
    /\ ~constructed
    /\ \E ep \in Endpoints, env \in Envs :
        \E r \in {attempt_connect(
                      [web3 |-> Web3None, rpc_endpoint |-> ep, connected |-> FALSE,
                       token_abi |-> token_abi, via |-> via, check |-> check],
                      ep, TRUE, env)} :
           /\ constructed' = TRUE
           /\ rpc_endpoint' = ep
           /\ web3' = r.web3
           /\ connected' = r.connected
           /\ token_abi' = r.token_abi
           /\ via' = r.via
           /\ check' = r.check
           /\ last' = Observed("__init__", ep, TRUE, r)
    /\ UNCHANGED <<ethrpc_endpoint, scan, chain_height, ledger>>

\* Ethchain.attempt_connect(ethrpc_endpoint, mainnet_check)
AttemptConnect ==
    /\ constructed
    /\ scan.pc = "idle"
    /\ \E ep \in Endpoints, mainnet_check \in BOOLEAN, env \in Envs :
        \E r \in {attempt_connect(Self, ep, mainnet_check, env)} :
           /\ web3' = r.web3
           /\ connected' = r.connected
           /\ token_abi' = r.token_abi
           /\ via' = r.via
           /\ check' = r.check
           /\ last' = Observed("attempt_connect", ep, mainnet_check, r)
    /\ UNCHANGED <<constructed, rpc_endpoint, ethrpc_endpoint, scan, chain_height, ledger>>

\* Ethchain.set_rpc_endpoint(endpoint)
SetRpcEndpoint ==
    /\ constructed
    /\ scan.pc = "idle"
    /\ \E ep \in Endpoints, env \in Envs :
        \E r \in {attempt_connect(Self, ep, TRUE, env)} :
           /\ web3' = r.web3
           /\ connected' = r.connected
           /\ token_abi' = r.token_abi
           /\ via' = r.via
           /\ check' = r.check
           /\ ethrpc_endpoint' = IF r.ok THEN ep ELSE ethrpc_endpoint
           /\ last' = Observed("set_rpc_endpoint", ep, TRUE, r)
    /\ UNCHANGED <<constructed, rpc_endpoint, scan, chain_height, ledger>>

\* Ethchain.is_synchronized(current_block, latest_block) called on its own
IsSynchronizedOver(Current, Latest) ==
    /\ constructed
    /\ scan.pc = "idle"
    /\ \E current_block \in Current, latest_block \in Latest :
        \E r \in {is_synchronized(connected, current_block, latest_block)} :
           /\ connected' = r.connected
           /\ check' = IF r.ok THEN check ELSE [check EXCEPT !.sync = "failed"]
           /\ last' = [op |-> "is_synchronized", current_block |-> current_block,
                       latest_block |-> latest_block, ok |-> r.ok, msg |-> r.msg]
    /\ UNCHANGED <<constructed, web3, rpc_endpoint, ethrpc_endpoint, token_abi, via,
                   scan, chain_height, ledger>>

\* the call with the heights a node reports during attempt_connect
IsSynchronized == IsSynchronizedOver(NodeCurrent, NodeHighest)

\* the call with every pair of heights up to MaxHeight
IsSynchronizedAnyHeights == IsSynchronizedOver(Heights, Heights)

\* Ethchain.query_eth_highest_block()
QueryEthHighestBlock ==
    /\ constructed
    /\ scan.pc = "idle"
    /\ \E primary \in OraclePrimaryReplies, explorer \in ExplorerReplies :
        \E r \in {query_eth_highest_block(primary, explorer)} :
           last' = [op |-> "query_eth_highest_block", primary |-> primary,
                    explorer |-> explorer, block |-> r.block,
                    asked_explorer |-> r.asked_explorer]
    /\ UNCHANGED <<constructed, connectivity, via, check, scan, chain_height, ledger>>

\* Ethchain.get_multitoken_balance(token, accounts)
GetMultitokenBalance ==
    /\ constructed
    /\ scan.pc = "idle"
    /\ \E accounts \in AccountLists :
        \E decimals \in IF connected THEN Decimals ELSE {0},
           balanceOf \in IF connected THEN [Accounts -> RawBalances]
                         ELSE {[a \in Accounts |-> 0]},
           replies \in IF connected
                       THEN {[a \in Accounts |-> [status |-> "ok", amount |-> ZERO]]}
                       ELSE [Accounts -> ExplorerReplies_balance] :
            \E r \in {get_multitoken_balance(connected, accounts, decimals,
                                              balanceOf, replies)} :
               last' = [op |-> "get_multitoken_balance", node |-> connected,
                        accounts |-> accounts, decimals |-> decimals,
                        balanceOf |-> balanceOf, replies |-> replies,
                        raised |-> r.raised, balances |-> r.balances,
                        node_calls |-> r.node_calls,
                        explorer_calls |-> r.explorer_calls]
    /\ UNCHANGED <<constructed, connectivity, via, check, scan, chain_height, ledger>>

\* Ethchain.get_token_balance(token, account); raw is the account's balance
\* on the chain, which the node and the explorer both read
GetTokenBalance ==
    /\ constructed
    /\ scan.pc = "idle"
    /\ \E account \in Accounts, decimals \in Decimals, raw \in RawBalances :
        \E reply \in IF connected THEN {[status |-> "ok", amount |-> ZERO]}
                     ELSE {[status |-> "RemoteError", amount |-> ZERO],
                           [status |-> "ok",
                            amount |-> etherscan_get_token_balance(raw, decimals)]} :
            \E r \in {get_token_balance(connected, account, decimals,
                                         [a \in Accounts |-> raw],
                                         [a \in Accounts |-> reply])} :
               last' = [op |-> "get_token_balance", node |-> connected,
                        account |-> account, decimals |-> decimals,
                        raw |-> raw, reply |-> reply,
                        raised |-> r.raised, value |-> r.value,
                        node_calls |-> r.node_calls,
                        explorer_calls |-> r.explorer_calls]
    /\ UNCHANGED <<constructed, connectivity, via, check, scan, chain_height, ledger>>

\* Ethchain.get_eth_balance(account)
GetEthBalance ==
    /\ constructed
    /\ scan.pc = "idle"
    /\ \E account \in Accounts :
        \E getBalance \in IF connected THEN RawBalances ELSE {0},
           reply \in IF connected THEN {[status |-> "ok", wei |-> 0]}
                     ELSE ExplorerReplies_wei :
            \E r \in {get_eth_balance(connected, getBalance, reply)} :
               last' = [op |-> "get_eth_balance", node |-> connected,
                        account |-> account, getBalance |-> getBalance,
                        reply |-> reply, raised |-> r.raised, value |-> r.value,
                        node_calls |-> r.node_calls,
                        explorer_calls |-> r.explorer_calls]
    /\ UNCHANGED <<constructed, connectivity, via, check, scan, chain_height, ledger>>

\* Ethchain.get_multieth_balance(accounts)
GetMultiethBalance ==
    /\ constructed
    /\ scan.pc = "idle"
    /\ \E accounts \in AccountLists :
        \E getBalance \in IF connected THEN [Accounts -> RawBalances]
                          ELSE {[a \in Accounts |-> 0]},
           reply \in IF connected
                     THEN {[status |-> "ok", amounts |-> [a \in Accounts |-> ZERO]]}
                     ELSE {[status |-> "RemoteError",
                            amounts |-> [a \in Accounts |-> ZERO]]}
                          \cup [status : {"ok"},
                                amounts : [Accounts -> {ZERO, FVal(5, 0)}]] :
            \E r \in {get_multieth_balance(connected, accounts, getBalance, reply)} :
               last' = [op |-> "get_multieth_balance", node |-> connected,
                        accounts |-> accounts, getBalance |-> getBalance,
                        reply |-> reply, raised |-> r.raised,
                        balances |-> r.balances,
                        node_calls |-> r.node_calls,
                        explorer_calls |-> r.explorer_calls]
    /\ UNCHANGED <<constructed, connectivity, via, check, scan, chain_height, ledger>>

GetCode_mut ==
    /\ constructed
    /\ scan.pc = "idle"
    /\ \E account \in Accounts :
        \E getCode \in IF connected THEN Codes ELSE {"0x"},
           reply \in IF connected THEN {[status |-> "ok", code |-> "0x"]}
                     ELSE ExplorerReplies_code :
            \E r \in {get_code(connected, getCode, reply)} :
               /\ last' = [op |-> "get_code", node |-> connected,
                           account |-> account, getCode |-> getCode,
                           reply |-> reply, raised |-> r.raised, value |-> r.value,
                           node_calls |-> r.node_calls,
                           explorer_calls |-> r.explorer_calls]
               /\ web3' = IF r.raised = "None" THEN web3 ELSE Web3None
    /\ UNCHANGED <<constructed, rpc_endpoint, ethrpc_endpoint, connected,
                   token_abi, via, check, scan, chain_height, ledger>>

\* Ethchain.get_code(account)
GetCode ==
    /\ constructed
    /\ scan.pc = "idle"
    /\ \E account \in Accounts :
        \E getCode \in IF connected THEN Codes ELSE {"0x"},
           reply \in IF connected THEN {[status |-> "ok", code |-> "0x"]}
                     ELSE ExplorerReplies_code :
            \E r \in {get_code(connected, getCode, reply)} :
               last' = [op |-> "get_code", node |-> connected,
                        account |-> account, getCode |-> getCode,
                        reply |-> reply, raised |-> r.raised, value |-> r.value,
                        node_calls |-> r.node_calls,
                        explorer_calls |-> r.explorer_calls]
    /\ UNCHANGED <<constructed, connectivity, via, check, scan, chain_height, ledger>>

\* Ethchain.check_contract(contract_address, abi, method_name, arguments)
CheckContract ==
    /\ constructed
    /\ scan.pc = "idle"
    /\ \E caller_value \in IF connected THEN Values ELSE {7},
          reply \in IF connected THEN {[status |-> "ok", output_data |-> <<7>>]}
                    ELSE ExplorerReplies_call :
        \E r \in {check_contract(connected, caller_value, reply)} :
           last' = [op |-> "check_contract", node |-> connected,
                    caller_value |-> caller_value, reply |-> reply,
                    raised |-> r.raised, value |-> r.value,
                    logged_error |-> r.logged_error,
                    node_calls |-> r.node_calls,
                    explorer_calls |-> r.explorer_calls]
    /\ UNCHANGED <<constructed, connectivity, via, check, scan, chain_height, ledger>>

\* Ethchain.get_logs(...): lines 382-398 on a node, or lines 416-419 without
GetLogsCall ==
    /\ constructed
    /\ scan.pc = "idle"
    /\ \E from_block \in FromBlocks, to_block \in ToBlocks :
        IF connected
        THEN /\ scan' = [pc |-> "loop", from_block |-> from_block,
                         to_block |-> to_block,
                         until_block |-> UntilBlock(to_block, chain_height),
                         height_at_call |-> chain_height,
                         start_block |-> from_block,
                         requests |-> <<>>, events |-> <<>>]
             /\ last' = [op |-> "get_logs", done |-> FALSE]
        ELSE \* `return events` with events never assigned
             /\ last' = [op |-> "get_logs", done |-> TRUE, node |-> FALSE,
                         from_block |-> from_block, to_block |-> to_block,
                         raised |-> "UnboundLocalError"]
             /\ scan' = scan
    /\ UNCHANGED <<constructed, connectivity, via, check, chain_height, ledger>>

\* one turn of the while loop, lines 399-415
GetLogsFetch ==
    /\ scan.pc = "loop"
    /\ scan.start_block <= scan.until_block
    /\ LET end_block == EndBlock(scan.start_block, scan.until_block)
           new_events == eth_getLogs(scan.start_block, end_block, chain_height)
       IN scan' = [scan EXCEPT
                     !.requests = Append(@, [fromBlock |-> scan.start_block,
                                             toBlock |-> end_block,
                                             result |-> new_events]),
                     !.start_block = NextStart(end_block),
                     !.events = @ \o new_events]
    /\ UNCHANGED <<constructed, connectivity, via, check, last, chain_height, ledger>>

\* the loop condition fails, line 419 returns events
GetLogsReturn ==
    /\ scan.pc = "loop"
    /\ scan.start_block > scan.until_block
    /\ last' = [op |-> "get_logs", done |-> TRUE, node |-> TRUE,
                from_block |-> scan.from_block, to_block |-> scan.to_block,
                until_block |-> scan.until_block,
                height_at_call |-> scan.height_at_call,
                requests |-> scan.requests, events |-> scan.events,
                raised |-> "None"]
    /\ scan' = NoScan
    /\ UNCHANGED <<constructed, connectivity, via, check, chain_height, ledger>>

\* the node imports blocks
NodeAdvance ==
    /\ \E h \in ChainHeights :
        /\ h > chain_height
        /\ \A g \in ChainHeights : g > chain_height => h <= g
        /\ chain_height' = h
    /\ UNCHANGED <<constructed, connectivity, via, check, last, scan, ledger>>


\* GitcoinDataImporter.import_gitcoin_csv(filepath)
ImportGitcoinCsv ==
    /\ \E rows \in Files :
        \E r \in {import_gitcoin_csv(ledger, rows)} :
           /\ last' = [op |-> "import_gitcoin_csv", rows |-> rows,
                       store_before |-> ledger, raised |-> r.raised,
                       persisted |-> r.persisted, parsed |-> r.parsed,
                       added |-> r.added, warnings |-> r.warnings,
                       errors |-> r.errors]
           /\ ledger' = r.store
    /\ UNCHANGED <<constructed, connectivity, via, check, scan, chain_height>>

Next ==
    \/ ConstructOnly
    \/ ConstructAndConnect
    \/ AttemptConnect
    \/ SetRpcEndpoint
    \/ IsSynchronized

Spec == Init /\ [][Next]_vars

\* the sync-lag check over every pair of heights
NextSync ==
    \/ ConstructOnly
    \/ ConstructAndConnect
    \/ IsSynchronizedAnyHeights

SpecSync == Init /\ [][NextSync]_vars

\* the highest-block oracle of a constructed accessor
NextOracle ==
    \/ ConstructOnly
    \/ ConstructAndConnect
    \/ QueryEthHighestBlock

SpecOracle == Init /\ [][NextOracle]_vars

\* the dispatch operations of a constructed accessor
NextDispatch ==
    \/ ConstructOnly
    \/ ConstructAndConnect
    \/ GetEthBalance
    \/ GetMultiethBalance
    \/ GetMultitokenBalance
    \/ GetTokenBalance
    \/ GetCode
    \/ CheckContract
    \/ GetLogsCall
    \/ GetLogsFetch
    \/ GetLogsReturn
    \/ NodeAdvance

SpecDispatch == Init /\ [][NextDispatch]_vars

\* imports of Gitcoin CSV files into one ledger store
NextImport == ImportGitcoinCsv

SpecImport == Init /\ [][NextImport]_vars

\* the log scan of a constructed accessor; a call that has started runs on
\* to its return, since get_logs is one synchronous loop
NextScan ==
    \/ ConstructOnly
    \/ ConstructAndConnect
    \/ GetLogsCall
    \/ GetLogsFetch
    \/ GetLogsReturn
    \/ NodeAdvance

SpecScan ==
    /\ Init /\ [][NextScan]_vars
    /\ WF_vars(GetLogsFetch)
    /\ WF_vars(GetLogsReturn)

\* ------------------------------------------------------------------ claims
\* the last call was, or contained, a call of attempt_connect
AttemptObserved ==
    \/ last.op \in {"attempt_connect", "set_rpc_endpoint"}
    \/ last.op = "__init__" /\ last.path # "no_attempt"

\* C1: an attempt_connect call with mainnet verification whose transport is
\* established and whose node reports a chain identity other than 1 returns
\* (false, non-empty message) and leaves connected false.
C1_NotMainnetFails ==
    (AttemptObserved /\ last.mainnet_check /\ last.established
        /\ last.chain_id # MainnetChainId)
    => (~last.ok /\ last.msg # "" /\ last.raised = "None" /\ ~connected)

\* a node on another chain answered a call that first released the handle of
\* an earlier connection
C1_Witness ==
    /\ last.op = "attempt_connect"
    /\ last.mainnet_check /\ last.established /\ last.released
    /\ last.chain_id = 2
    /\ ~last.ok /\ ~connected

\* C2: when the sync-lag check of a verifying attempt_connect fails, the
\* accessor ends disconnected and the call reports failure.
C2_SyncFailureDisconnects ==
    (AttemptObserved /\ last.mainnet_check /\ last.sync = "failed")
    => (~connected /\ ~last.ok)

\* C3: connected implies that the last connectivity check saw chain identity 1
\* and a passing sync-lag check.
C3_ConnectedImpliesVerified ==
    connected => (check.chain_id = MainnetChainId /\ check.sync = "passed")

\* C4: attempt_connect(E) on an accessor that is connected through a call
\* with E returns success, releases nothing, builds no transport and leaves
\* the connectivity state as it was.
C4_FastPathIdempotent ==
    [][(last'.op = "attempt_connect" /\ connected /\ via = last'.endpoint)
       => (/\ last'.ok
           /\ ~last'.released
           /\ ~last'.built
           /\ UNCHANGED <<connectivity, via>>)]_vars

\* C5: a successful attempt_connect(E) leaves the accessor connected with E
\* as the endpoint the fast path compares, and returns an empty message.
C5_SuccessRecordsEndpoint ==
    (last.op = "attempt_connect" /\ last.ok)
    => (connected /\ rpc_endpoint = last.endpoint /\ last.msg = "")

\* C6: no attempt_connect call raises; a call whose transport cannot be
\* established returns (false, non-empty message) with connected false.
C6_NoExceptionEscapes ==
    AttemptObserved
    => (/\ last.raised = "None"
        /\ last.path = "connection_error"
             => (~last.ok /\ last.msg # "" /\ ~connected))

\* C7: get_logs on an accessor that is not connected returns the empty
\* sequence and does not fail.
C7_DisconnectedLogsEmpty ==
    (last.op = "get_logs" /\ last.done /\ ~last.node)
    => (last.raised = "None" /\ last.events = <<>>)

\* the k-th range of a scan of [from_block, to_block], k counted from 0
ChunkFrom(from_block, k) == from_block + (ScanWindow + 1) * k
ChunkTo(from_block, to_block, k) ==
    Min(from_block + (ScanWindow + 1) * k + ScanWindow, to_block)
\* ceil((to_block - from_block + 1) / 250001)
ChunkCount(from_block, to_block) ==
    (to_block - from_block + 1 + ScanWindow) \div (ScanWindow + 1)

RECURSIVE ConcatResults(_, _)
ConcatResults(requests, i) ==
    IF i > Len(requests) THEN <<>>
    ELSE requests[i].result \o ConcatResults(requests, i + 1)

\* the ranges of the last get_logs call are the three given ones
ThreeRanges(r1, r2, r3) ==
    /\ Len(last.requests) = 3
    /\ <<last.requests[1].fromBlock, last.requests[1].toBlock>> = r1
    /\ <<last.requests[2].fromBlock, last.requests[2].toBlock>> = r2
    /\ <<last.requests[3].fromBlock, last.requests[3].toBlock>> = r3

\* the general statement of C8: the count of the requests, the range of the
\* k-th request, and the result as the concatenation of the replies
ChunksAsStated ==
    /\ last.raised = "None"
    /\ Len(last.requests) = ChunkCount(last.from_block, last.until_block)
    /\ \A i \in 1..Len(last.requests) :
        /\ last.requests[i].fromBlock = ChunkFrom(last.from_block, i - 1)
        /\ last.requests[i].toBlock =
             ChunkTo(last.from_block, last.until_block, i - 1)
    /\ last.events = ConcatResults(last.requests, 1)

NodeScanReturned ==
    /\ last.op = "get_logs" /\ last.done /\ last.node
    /\ last.from_block <= last.until_block

\* C8 as stated: on a node, for from_block <= to_block, get_logs issues
\* exactly ceil((to_block - from_block + 1) / 250001) requests, the k-th for
\* [from_block + 250001 k, min(from_block + 250001 k + 250000, to_block)], in
\* increasing order, and returns the concatenation of their results; for
\* from_block 0 and to_block 600000 the ranges are [0,250000],
\* [250001,500000], [500001,600000].
C8_ChunkedScan ==
    NodeScanReturned
    => (/\ ChunksAsStated
        /\ (last.from_block = 0 /\ last.until_block = 600000)
             => ThreeRanges(<<0, 250000>>, <<250001, 500000>>, <<500001, 600000>>))

\* C8 amended: the same count, ranges and concatenation; for from_block 0 and
\* to_block 600000 the ranges are [0,250000], [250001,500001],
\* [500002,600000].
C8_ChunkedScanAmended ==
    NodeScanReturned
    => (/\ ChunksAsStated
        /\ (last.from_block = 0 /\ last.until_block = 600000)
             => ThreeRanges(<<0, 250000>>, <<250001, 500001>>, <<500002, 600000>>))

\* the scan of [0, 600000] has returned its three chunks with their events
C8_Witness ==
    /\ last.op = "get_logs" /\ last.done /\ last.node
    /\ last.from_block = 0 /\ last.to_block = <<600000>>
    /\ Len(last.requests) = 3
    /\ last.events = <<0, 250000, 250001, 600000>>

\* the balance get_multitoken_balance computes for an account of the last call
ComputedBalance(account) ==
    IF last.node THEN ScaleByDecimals(last.balanceOf[account], last.decimals)
    ELSE last.replies[account].amount

\* C9: on the node path and on the explorer path, the map of
\* get_multitoken_balance holds no address whose balance is exactly zero and
\* holds every requested address whose balance is not zero.
C9_ZeroBalancesExcluded ==
    (last.op = "get_multitoken_balance" /\ last.raised = "None")
    => (/\ \A a \in DOMAIN last.balances : last.balances[a] # ZERO
        /\ \A i \in 1..Len(last.accounts) :
             ComputedBalance(last.accounts[i]) # ZERO
               => /\ last.accounts[i] \in DOMAIN last.balances
                  /\ last.balances[last.accounts[i]]
                       = ComputedBalance(last.accounts[i]))

\* C10: is_synchronized(current_block, latest_block) returns (true, "") iff
\* current_block >= latest_block - 20 and (false, non-empty message)
\* otherwise.
C10_SyncTolerance ==
    last.op = "is_synchronized"
    => (/\ last.ok <=> (last.current_block >= last.latest_block - 20)
        /\ last.ok => last.msg = ""
        /\ ~last.ok => last.msg # "")

\* a lag of exactly 21 blocks was judged out of sync
C10_Witness ==
    /\ last.op = "is_synchronized"
    /\ last.latest_block - last.current_block = 21
    /\ ~last.ok /\ last.msg # ""

\* C11: a verifying attempt_connect against a mainnet node that is not
\* syncing, with the oracle returning None, is accepted: connected is true,
\* the call returns success, exactly one warning goes to the aggregator and
\* nothing is raised.
C11_NullOracleAccepted ==
    (AttemptObserved /\ last.mainnet_check /\ last.sync = "unknown")
    => (/\ connected
        /\ last.ok
        /\ last.warnings = 1
        /\ last.raised = "None"
        /\ last.chain_id = MainnetChainId)

\* a reconnecting call was accepted with one warning although no reference
\* height could be found
C11_Witness ==
    /\ last.op = "attempt_connect"
    /\ last.mainnet_check /\ last.sync = "unknown" /\ last.released
    /\ connected /\ last.warnings = 1

DispatchObserved ==
    last.op \in {"get_eth_balance", "get_multieth_balance",
                 "get_multitoken_balance", "get_code", "check_contract"}

\* the last call had something to ask a backend for
Asked ==
    last.op \in {"get_multieth_balance", "get_multitoken_balance"}
    => Len(last.accounts) > 0

\* C13: get_eth_balance, get_multieth_balance, get_multitoken_balance,
\* get_code and check_contract are served by the node alone when connected
\* is true, with no call of the explorer client, and by the explorer client
\* alone when connected is false, with no use of the node.
C13_OneBackend ==
    DispatchObserved
    => /\ last.node = connected
       /\ connected => (last.explorer_calls = 0 /\ (Asked => last.node_calls > 0))
       /\ ~connected => (last.node_calls = 0 /\ (Asked => last.explorer_calls > 0))

\* a connected accessor read a contract's code from its node
C13_Witness ==
    /\ last.op = "get_code" /\ connected
    /\ last.node_calls = 1 /\ last.explorer_calls = 0
    /\ last.value = <<"0x60">>

\* C16: on the explorer path of check_contract, a payload that decodes to
\* more than one value is logged as an anomaly and its first element is
\* returned without raising; a payload that decodes to exactly one value is
\* returned and nothing is logged.
C16_FirstOutputReturned ==
    (last.op = "check_contract" /\ ~last.node /\ last.reply.status = "ok")
    => LET output_data == last.reply.output_data
       IN /\ Len(output_data) > 1
               => (/\ last.raised = "None"
                   /\ last.logged_error
                   /\ last.value = <<output_data[1]>>)
          /\ Len(output_data) = 1
               => (/\ last.raised = "None"
                   /\ ~last.logged_error
                   /\ last.value = <<output_data[1]>>)

\* the explorer's payload held two different values and the first came back
C16_Witness ==
    /\ last.op = "check_contract" /\ ~last.node /\ last.reply.status = "ok"
    /\ Len(last.reply.output_data) = 2
    /\ last.reply.output_data[1] # last.reply.output_data[2]
    /\ last.logged_error
    /\ last.value = <<last.reply.output_data[1]>>

\* the requested ranges partition [from_block, until_block] as far as the
\* scan has come: the first starts at from_block, each starts one block after
\* the previous one ends, and none is wider than the scan window or passes
\* until_block
RangesAdjacent(requests, from_block, until_block) ==
    /\ \A i \in 1..Len(requests) :
        /\ requests[i].fromBlock <= requests[i].toBlock
        /\ requests[i].toBlock <= until_block
        /\ requests[i].toBlock - requests[i].fromBlock <= ScanWindow
    /\ Len(requests) > 0 => requests[1].fromBlock = from_block
    /\ \A i \in 1..(Len(requests) - 1) :
        requests[i + 1].fromBlock = requests[i].toBlock + 1

\* every block of the interval lies in exactly one requested range
RangesCover(requests, from_block, until_block) ==
    /\ from_block <= until_block
         => (Len(requests) > 0 /\ requests[Len(requests)].toBlock = until_block)
    /\ \A b \in BlockPoints \cup {from_block, until_block} :
        (from_block <= b /\ b <= until_block)
        => Cardinality({i \in 1..Len(requests) :
                          requests[i].fromBlock <= b /\ b <= requests[i].toBlock}) = 1

ScanPartitions ==
    /\ scan.pc = "loop"
         => RangesAdjacent(scan.requests, scan.from_block, scan.until_block)
    /\ (last.op = "get_logs" /\ last.done /\ last.node)
         => /\ RangesAdjacent(last.requests, last.from_block, last.until_block)
            /\ RangesCover(last.requests, last.from_block, last.until_block)
            /\ last.from_block > last.until_block
                 => (last.requests = <<>> /\ last.events = <<>>)

\* C18: on a node the scan loop of get_logs terminates, and the ranges it
\* requests partition [from_block, to_block]: adjacent, each with
\* start <= end <= to_block and end - start <= 250000, every block in exactly
\* one of them; with from_block > to_block nothing is requested and the
\* result is empty.
C18_ScanTerminatesAndPartitions ==
    /\ []ScanPartitions
    /\ (scan.pc = "loop") ~> (scan.pc = "idle")

\* a scan over more than one window has returned
C18_Witness ==
    /\ NodeScanReturned
    /\ Len(last.requests) = MaxChunks
    /\ last.requests[MaxChunks].toBlock = last.until_block

\* C19: with to_block = 'latest' the upper bound of the scan is the node's
\* height read once when the call starts: while the node's height grows no
\* request goes above that height, and the number of requests is the one
\* that height fixes.
C19_LatestReadOnce ==
    /\ (scan.pc = "loop" /\ scan.to_block = <<>>)
         => /\ scan.until_block = scan.height_at_call
            /\ \A i \in 1..Len(scan.requests) :
                scan.requests[i].toBlock <= scan.height_at_call
    /\ (last.op = "get_logs" /\ last.done /\ last.node /\ last.to_block = <<>>)
         => /\ last.until_block = last.height_at_call
            /\ \A i \in 1..Len(last.requests) :
                last.requests[i].toBlock <= last.height_at_call
            /\ last.from_block <= last.height_at_call
                 => Len(last.requests)
                      = ChunkCount(last.from_block, last.height_at_call)

\* the node's height grew in the middle of a scan up to 'latest'
C19_Witness ==
    /\ scan.pc = "loop" /\ scan.to_block = <<>>
    /\ Len(scan.requests) = 1
    /\ scan.start_block <= scan.until_block
    /\ chain_height > scan.height_at_call

DispatchOps ==
    {"get_eth_balance", "get_multieth_balance", "get_token_balance",
     "get_multitoken_balance", "get_code", "check_contract", "get_logs"}

\* a step of a dispatch operation: a call returns, or a scan moves on
DispatchStep ==
    /\ constructed
    /\ \/ scan' # scan
       \/ last' # last /\ last'.op \in DispatchOps

\* C20: no dispatch operation changes the connectivity state: connected, the
\* recorded endpoint, the connection handle and the token ABI are after the
\* call what they were before it, whether it returns or raises RemoteError.
C20_DispatchKeepsConnectivity ==
    [][DispatchStep => UNCHANGED connectivity]_vars

\* an explorer-served call failed with RemoteError on an accessor that holds
\* a handle and an endpoint
C20_Witness ==
    /\ last.op = "get_code" /\ last.raised = "RemoteError"
    /\ ~connected /\ web3.state = "Handle"
    /\ rpc_endpoint # NoEndpoint

ImportObserved == last.op = "import_gitcoin_csv"

\* the rows of the last imported file that satisfy P
RowsWhere(P(_)) == {i \in 1..Len(last.rows) : P(last.rows[i])}

UnknownAssetRow(row) ==
    /\ row.Type = "grant"
    /\ deserialize_asset_amount(row.usd) # <<>>
    /\ get_asset_by_symbol(row.token_name) = <<>>

ValidGrantRow(row) ==
    /\ row.Type = "grant"
    /\ deserialize_asset_amount(row.usd) # <<>>
    /\ get_asset_by_symbol(row.token_name) # <<>>
    /\ deserialize_asset_amount(row.token_value) \notin {<<>>, <<0>>}

ZeroAmountRow(row) ==
    /\ row.Type = "grant"
    /\ deserialize_asset_amount(row.usd) # <<>>
    /\ get_asset_by_symbol(row.token_name) # <<>>
    /\ deserialize_asset_amount(row.token_value) = <<0>>

ZeroAmountNoPriceRow(row) == ZeroAmountRow(row) /\ row.price = 0

WarningsOf(kind) ==
    Cardinality({i \in 1..Len(last.warnings) : last.warnings[i] = kind})

\* C14: an import passes to add_ledger_actions no action whose link (txid)
\* is that of an action an earlier import left in the ledger store, so
\* importing the same CSV twice adds nothing the second time.
C14_KnownTxidsFiltered ==
    (ImportObserved /\ last.persisted)
    => \A i \in 1..Len(last.added) :
         last.added[i].link \notin {x.link : x \in last.store_before}

\* C15: every grant row with an unrecognised asset symbol is skipped with
\* exactly one warning, and every other valid grant row of the file, before
\* or after it, is passed on for persistence.
C15_UnknownAssetSkipped ==
    ImportObserved
    => /\ WarningsOf("unknown_asset") = Cardinality(RowsWhere(UnknownAssetRow))
       /\ \A i \in RowsWhere(ValidGrantRow) :
            \E k \in 1..Len(last.parsed) : last.parsed[k].link = last.rows[i].txid
       /\ \A k \in 1..Len(last.parsed) :
            \E i \in RowsWhere(ValidGrantRow) : last.parsed[k].link = last.rows[i].txid

\* C17: import_gitcoin_csv recovers from every row-level problem: for every
\* sequence of rows, also with a zero token amount and a non-zero fallback
\* price, the call goes on to the next row and reaches add_ledger_actions
\* without raising; a zero-amount row is skipped with a warning only when the
\* fallback price is zero too.
C17_EveryRowRecovered ==
    ImportObserved
    => /\ last.raised = "None"
       /\ last.persisted
       /\ WarningsOf("zero_amount") = Cardinality(RowsWhere(ZeroAmountNoPriceRow))

\* C21: for every token and account, get_token_balance returns on the node
\* path and on the explorer path the same value for the same raw balance:
\* the raw balance divided by 10^decimals, and the value 0, neither an error
\* nor a missing result, when the balance is exactly zero.
C21_SameValueOnBothPaths ==
    (last.op = "get_token_balance" /\ (last.node \/ last.reply.status = "ok"))
    => /\ last.raised = "None"
       /\ last.value = <<ScaleByDecimals(last.raw, last.decimals)>>
       /\ last.raw = 0 => last.value = <<ZERO>>

\* the explorer served a non-zero balance of a token with decimals
C21_Witness ==
    /\ last.op = "get_token_balance" /\ ~last.node
    /\ last.reply.status = "ok"
    /\ last.raw # 0 /\ last.decimals = MaxDecimals
    /\ last.value = <<ScaleByDecimals(last.raw, last.decimals)>>
    /\ last.value # <<FVal(last.raw, 0)>>

====
